---- MODULE Spec2Model ----
(***************************************************************************)
(* A model of the w3up-client glue layer: Client.create on a backing       *)
(* store, the Client methods that forward to the agent, the delegation     *)
(* helpers exercised by test/delegation.test.js and the settings import.   *)
(***************************************************************************)
EXTENDS Integers, Sequences, FiniteSets, TLC

VARIABLES
    \* Client.create: the backing store and, per call, its position, the
    \* value store.load() gave, the key generated and the agent of the client.
    store, cpc, craw, ckey, cident, nkeys, overlapped,
    \* test/delegation.test.js: Date.now(), the position of the test and
    \* the values it holds.
    clock, tpc, tissuer, tnow, tlife, tdeleg, tbytes, tsource, timported,
    \* A Client: which of the two class definitions of client.js it is an
    \* instance of, its agent's space map and current space, what the last
    \* call returned, and the record of calls made.
    rev, agentSpaces, agentCurrentSpace, sret, lastSet, created,
    \* The agent's delegation store, the time, what the last call returned,
    \* and the proofs added.
    agentDelegations, pnow, pret, added,
    \* importSettings: the parsed settings string and the outcome.
    imported, settings

createVars == <<store, cpc, craw, ckey, cident, nkeys, overlapped>>

delegationVars == <<clock, tpc, tissuer, tnow, tlife, tdeleg, tbytes, tsource, timported>>

spaceVars == <<rev, agentSpaces, agentCurrentSpace, sret, lastSet, created>>

proofVars == <<agentDelegations, pnow, pret, added>>

settingsVars == <<imported, settings>>

vars == <<createVars, delegationVars, spaceVars, proofVars, settingsVars>>

exceptCreate == <<delegationVars, spaceVars, proofVars, settingsVars>>

exceptDelegation == <<createVars, spaceVars, proofVars, settingsVars>>

exceptSpace == <<createVars, delegationVars, proofVars, settingsVars>>

exceptProof == <<createVars, delegationVars, settingsVars>>

exceptSettings == <<createVars, delegationVars, spaceVars, proofVars>>

\* JavaScript's undefined, where a string (a DID, a name) is expected.
Undefined == "undefined"
\* JavaScript's undefined, where an object is expected.
NoData == [undefined |-> TRUE]
\* No signing key.
NoKey == 0

(***************************************************************************)
(* Part A.  Client.create (src/src/client.js 353-376).                     *)
(* Every await of the async function is a point where another call on the  *)
(* same store may run.                                                     *)
(***************************************************************************)
MaxCalls == 3

Calls == 1..MaxCalls

\* The key of agent data a store may already hold.
StoredKey == -1

\* AgentData.create({ principal }, { store }): the exported agent data.
AgentDataOf(principal) == [principal |-> principal, meta |-> "agent"]

\* `if (raw)` with every stored value treated as absent.
HasDataNever(raw) == FALSE

\* `if (raw)`: the store held data.
HasData(raw) == raw # NoData

\* this._agent.issuer of the client built from agent data.
AgentOf(data) == data.principal

\* A call enters Client.create and issues store.load().
CreateStart(c) ==
    /\ cpc[c] = "idle"
    /\ cpc' = [cpc EXCEPT ![c] = "load"]
    /\ overlapped' = (overlapped \/ \E d \in Calls \ {c} : cpc[d] \notin {"idle", "done"})
    /\ UNCHANGED <<store, craw, ckey, cident, nkeys>>
    /\ UNCHANGED exceptCreate

\* store.load() resolves; with data the client is built from it at once.
CreateLoad(c) ==
    /\ cpc[c] = "load"
    /\ craw' = [craw EXCEPT ![c] = store]
    /\ IF HasData(store)
         THEN /\ cident' = [cident EXCEPT ![c] = AgentOf(store)]
              /\ cpc' = [cpc EXCEPT ![c] = "done"]
         ELSE /\ cpc' = [cpc EXCEPT ![c] = "generate"]
              /\ UNCHANGED cident
    /\ UNCHANGED <<store, ckey, nkeys, overlapped>>
    /\ UNCHANGED exceptCreate

\* Signer.generate() resolves with a key no one else holds.
CreateGenerate(c) ==
    /\ cpc[c] = "generate"
    /\ nkeys' = nkeys + 1
    /\ ckey' = [ckey EXCEPT ![c] = nkeys + 1]
    /\ cpc' = [cpc EXCEPT ![c] = "create"]
    /\ UNCHANGED <<store, craw, cident, overlapped>>
    /\ UNCHANGED exceptCreate

\* AgentData.create saves the export to the store; the client is returned.
CreateSave(c) ==
    /\ cpc[c] = "create"
    /\ store' = AgentDataOf(ckey[c])
    /\ cident' = [cident EXCEPT ![c] = AgentOf(AgentDataOf(ckey[c]))]
    /\ cpc' = [cpc EXCEPT ![c] = "done"]
    /\ UNCHANGED <<craw, ckey, nkeys, overlapped>>
    /\ UNCHANGED exceptCreate

CreateInit ==
    /\ store \in {NoData, AgentDataOf(StoredKey)}
    /\ cpc = [c \in Calls |-> "idle"]
    /\ craw = [c \in Calls |-> NoData]
    /\ ckey = [c \in Calls |-> NoKey]
    /\ cident = [c \in Calls |-> NoKey]
    /\ nkeys = 0
    /\ overlapped = FALSE

CreateIdle ==
    /\ store = NoData
    /\ cpc = [c \in Calls |-> "idle"]
    /\ craw = [c \in Calls |-> NoData]
    /\ ckey = [c \in Calls |-> NoKey]
    /\ cident = [c \in Calls |-> NoKey]
    /\ nkeys = 0
    /\ overlapped = FALSE

CreateNext ==
    \E c \in Calls :
        \/ CreateStart(c)
        \/ CreateLoad(c)
        \/ CreateGenerate(c)
        \/ CreateSave(c)

(***************************************************************************)
(* Part B.  The delegation helpers of src/delegation.js as the tests of    *)
(* src/test/delegation.test.js drive them.  The helpers themselves are not *)
(* among the sources; they are modelled as the chain the specification     *)
(* names: generate principal, build delegation, encode to bytes, decode    *)
(* from bytes.                                                             *)
(***************************************************************************)
MaxClock == 3
NumIssuers == 2
NumAudiences == 2

\* expiration: 1000 of the tests.
TestExpiration == 1000

\* Principals produced by SigningPrincipal.generate(), by number.
Issuers == 1..NumIssuers

\* DIDs a delegation may be addressed to (fixture.did among them), by number.
Audiences == 1..NumAudiences

\* The expiration option: absent (<<>>) or a lifetime <<n>>.
Lifetimes == {<<>>, <<0>>, <<1>>, <<TestExpiration>>}

\* The first word of an encoded delegation.
Magic == 58

\* A delegation built with the literal option as its expiration.
generateDelegationAbsolute(issuer, to, expiration, t) ==
    [issuer |-> issuer, audience |-> to, expiration |-> expiration]

\* generateDelegation({ issuer, to, expiration }) called when Date.now() is t.
generateDelegation(issuer, to, expiration, t) ==
    [issuer |-> issuer,
     audience |-> to,
     expiration |-> IF expiration = <<>> THEN <<>> ELSE <<t + expiration[1]>>]

\* A number as bytes, least significant first.
RECURSIVE numberBytes(_)
numberBytes(n) ==
    IF n < 256 THEN <<n>> ELSE <<n % 256>> \o numberBytes(n \div 256)

\* The number a sequence of bytes stands for.
RECURSIVE bytesNumber(_)
bytesNumber(b) ==
    IF b = <<>> THEN 0 ELSE b[1] + 256 * bytesNumber(Tail(b))

\* The bytes of the expiration: none when the delegation has no expiration.
expirationBytes(d) ==
    IF d.expiration = <<>> THEN <<>> ELSE numberBytes(d.expiration[1])

\* An encoder that leaves out the expiration the header announces.
encodeDelegationTruncated(d) ==
    <<Magic, d.issuer, d.audience, Len(expirationBytes(d))>>

\* The bytes of a delegation: a leading byte, issuer, audience, the length of
\* the expiration and the expiration.
encodeDelegation(d) ==
    <<Magic, d.issuer, d.audience, Len(expirationBytes(d))>> \o expirationBytes(d)

\* writeDelegation(opts): generateDelegation, then encode.
writeDelegation(issuer, to, expiration, t) ==
    encodeDelegation(generateDelegation(issuer, to, expiration, t))

\* importDelegation(bytes): the delegation, or undefined for bytes that are
\* not an encoded delegation.
importDelegation(bytes) ==
    IF /\ Len(bytes) >= 4
       /\ bytes[1] = Magic
       /\ Len(bytes) = 4 + bytes[4]
      THEN [issuer |-> bytes[2],
            audience |-> bytes[3],
            expiration |-> IF bytes[4] = 0 THEN <<>>
                           ELSE <<bytesNumber(SubSeq(bytes, 5, Len(bytes)))>>]
      ELSE NoData

\* Byte strings that did not come from writeDelegation.
ForeignBytes == {<<>>, <<Magic>>, <<Magic, 1, 1, 1>>, <<0, 1, 1, 0>>}

\* Date.now() advances.
Tick ==
    /\ clock < MaxClock
    /\ clock' = clock + 1
    /\ UNCHANGED <<tpc, tissuer, tnow, tlife, tdeleg, tbytes, tsource, timported>>
    /\ UNCHANGED exceptDelegation

\* beforeEach: SigningPrincipal.generate().
TestBeforeEach ==
    /\ tpc = "start"
    /\ \E i \in Issuers : tissuer' = i
    /\ tpc' = "ready"
    /\ UNCHANGED <<clock, tnow, tlife, tdeleg, tbytes, tsource, timported>>
    /\ UNCHANGED exceptDelegation

\* writeDelegation({ issuer, to [, expiration] }).
TestWrite ==
    /\ tpc = "ready"
    /\ \E to \in Audiences, e \in Lifetimes :
          /\ tlife' = e
          /\ tdeleg' = generateDelegation(tissuer, to, e, clock)
          /\ tbytes' = writeDelegation(tissuer, to, e, clock)
    /\ tsource' = "written"
    /\ tpc' = "written"
    /\ UNCHANGED <<clock, tissuer, tnow, timported>>
    /\ UNCHANGED exceptDelegation

\* Bytes handed to importDelegation that no writeDelegation produced.
TestForeign ==
    /\ tpc = "ready"
    /\ \E b \in ForeignBytes : tbytes' = b
    /\ tsource' = "foreign"
    /\ tpc' = "written"
    /\ UNCHANGED <<clock, tissuer, tnow, tlife, tdeleg, timported>>
    /\ UNCHANGED exceptDelegation

\* importDelegation(delegation).
TestImport ==
    /\ tpc = "written"
    /\ timported' = importDelegation(tbytes)
    /\ tpc' = "imported"
    /\ UNCHANGED <<clock, tissuer, tnow, tlife, tdeleg, tbytes, tsource>>
    /\ UNCHANGED exceptDelegation

\* const now = Date.now()
TestNow ==
    /\ tpc = "ready"
    /\ tnow' = clock
    /\ tpc' = "timed"
    /\ UNCHANGED <<clock, tissuer, tlife, tdeleg, tbytes, tsource, timported>>
    /\ UNCHANGED exceptDelegation

\* generateDelegation({ issuer, to, expiration: n })
TestGenerate ==
    /\ tpc = "timed"
    /\ \E to \in Audiences, e \in Lifetimes \ {<<>>} :
          /\ tlife' = e
          /\ tdeleg' = generateDelegation(tissuer, to, e, clock)
    /\ tpc' = "generated"
    /\ UNCHANGED <<clock, tissuer, tnow, tbytes, tsource, timported>>
    /\ UNCHANGED exceptDelegation

DelegationInit ==
    /\ clock = 0
    /\ tpc = "start"
    /\ tissuer = 0
    /\ tnow = 0
    /\ tlife = <<>>
    /\ tdeleg = NoData
    /\ tbytes = <<>>
    /\ tsource = "none"
    /\ timported = NoData

DelegationNext ==
    \/ Tick
    \/ TestBeforeEach
    \/ TestWrite
    \/ TestForeign
    \/ TestImport
    \/ TestNow
    \/ TestGenerate

(***************************************************************************)
(* Part C.  The space methods of Client (src/src/client.js 59-91 and        *)
(* 238-269).  client.js holds two definitions of the class; rev says which *)
(* one the client is an instance of.  The agent (@web3-storage/access) is   *)
(* modelled by its space map, a Map iterated in insertion order, and its    *)
(* current space.                                                          *)
(***************************************************************************)
MaxSpaces == 2

\* The two definitions of class Client: lines 10-175 and lines 189-377.
Revisions == {"first", "second"}

\* A space shared with the agent by a delegation; never created locally.
SharedSpace == "did:key:shared"

\* The DID of the n-th space the agent creates.
SpaceDid(n) == "did:key:space" \o ToString(n)

\* Optional space names.
Names == {Undefined, "home"}

\* Map.prototype.has
MapHas(m, did) == \E i \in DOMAIN m : m[i].did = did

\* Map.prototype.get
MapGet(m, did) ==
    IF MapHas(m, did)
      THEN m[CHOOSE i \in DOMAIN m : m[i].did = did].meta
      ELSE NoData

\* Map.prototype.set: an existing key keeps its place.
MapSet(m, did, meta) ==
    IF MapHas(m, did)
      THEN [i \in DOMAIN m |-> IF m[i].did = did THEN [did |-> did, meta |-> meta] ELSE m[i]]
      ELSE Append(m, [did |-> did, meta |-> meta])

\* new Space(did, meta)
Space(did, meta) == [did |-> did, meta |-> meta]

\* currentSpace() without the lookup of the metadata.
currentSpaceNoMeta ==
    IF agentCurrentSpace # Undefined
      THEN Space(agentCurrentSpace, NoData)
      ELSE NoData

\* currentSpace()
currentSpace ==
    IF agentCurrentSpace # Undefined
      THEN Space(agentCurrentSpace, MapGet(agentSpaces, agentCurrentSpace))
      ELSE NoData

\* spaces()
spaces == [i \in DOMAIN agentSpaces |-> Space(agentSpaces[i].did, agentSpaces[i].meta)]

\* What createSpace returns for the { did, meta } of the agent: a Space in
\* the first definition, nothing in the second.
createSpaceReturn(r, did, meta) ==
    IF r = "first" THEN Space(did, meta) ELSE NoData

CurrentSpaceCall ==
    /\ sret' = [op |-> "currentSpace", val |-> currentSpace]
    /\ UNCHANGED <<rev, agentSpaces, agentCurrentSpace, lastSet, created>>
    /\ UNCHANGED exceptSpace

\* setCurrentSpace(did): the agent either makes did current or rejects.
SetCurrentSpace ==
    \E did \in {agentSpaces[i].did : i \in DOMAIN agentSpaces} \cup {SharedSpace} :
        \/ /\ agentCurrentSpace' = did
           /\ lastSet' = did
           /\ sret' = [op |-> "setCurrentSpace", val |-> [outcome |-> "resolved"]]
           /\ UNCHANGED <<rev, agentSpaces, created>>
           /\ UNCHANGED exceptSpace
        \/ /\ sret' = [op |-> "setCurrentSpace", val |-> [outcome |-> "rejected"]]
           /\ UNCHANGED <<rev, agentSpaces, agentCurrentSpace, lastSet, created>>
           /\ UNCHANGED exceptSpace

SpacesCall ==
    /\ sret' = [op |-> "spaces", val |-> spaces]
    /\ UNCHANGED <<rev, agentSpaces, agentCurrentSpace, lastSet, created>>
    /\ UNCHANGED exceptSpace

\* createSpace(name): the agent creates a space of a new DID and adds it to
\* its map.
CreateSpace ==
    /\ Len(created) < MaxSpaces
    /\ \E name \in Names :
          LET did == SpaceDid(Len(created) + 1)
              meta == [name |-> name, isRegistered |-> FALSE]
          IN /\ agentSpaces' = MapSet(agentSpaces, did, meta)
             /\ created' = Append(created, [did |-> did, meta |-> meta])
             /\ sret' = [op |-> "createSpace", val |-> createSpaceReturn(rev, did, meta)]
    /\ UNCHANGED <<rev, agentCurrentSpace, lastSet>>
    /\ UNCHANGED exceptSpace

\* registerSpace(email): the current space becomes registered; without a
\* current space of the map the agent rejects.
RegisterSpace ==
    /\ IF agentCurrentSpace # Undefined /\ MapHas(agentSpaces, agentCurrentSpace)
         THEN /\ agentSpaces' =
                    MapSet(agentSpaces, agentCurrentSpace,
                           [MapGet(agentSpaces, agentCurrentSpace) EXCEPT !.isRegistered = TRUE])
              /\ sret' = [op |-> "registerSpace", val |-> [outcome |-> "resolved"]]
         ELSE /\ sret' = [op |-> "registerSpace", val |-> [outcome |-> "rejected"]]
              /\ UNCHANGED agentSpaces
    /\ UNCHANGED <<rev, agentCurrentSpace, lastSet, created>>
    /\ UNCHANGED exceptSpace

\* addSpace(proof): the space the proof is for enters the map.
AddSpace ==
    /\ \E name \in Names :
          agentSpaces' = MapSet(agentSpaces, SharedSpace, [name |-> name, isRegistered |-> FALSE])
    /\ sret' = [op |-> "addSpace", val |-> [outcome |-> "resolved"]]
    /\ UNCHANGED <<rev, agentCurrentSpace, lastSet, created>>
    /\ UNCHANGED exceptSpace

\* A client of either definition over new agent data, or over agent data
\* loaded from a store in which a space is current.
SpaceInit ==
    /\ rev \in Revisions
    /\ \E loaded \in BOOLEAN :
          IF loaded
            THEN /\ agentSpaces = <<[did |-> SharedSpace,
                                     meta |-> [name |-> Undefined, isRegistered |-> TRUE]]>>
                 /\ agentCurrentSpace = SharedSpace
            ELSE /\ agentSpaces = <<>>
                 /\ agentCurrentSpace = Undefined
    /\ sret = [op |-> "none", val |-> NoData]
    /\ lastSet = Undefined
    /\ created = <<>>

SpaceIdle ==
    /\ rev = "first"
    /\ agentSpaces = <<>>
    /\ agentCurrentSpace = Undefined
    /\ sret = [op |-> "none", val |-> NoData]
    /\ lastSet = Undefined
    /\ created = <<>>

SpaceNext ==
    \/ CurrentSpaceCall
    \/ SetCurrentSpace
    \/ SpacesCall
    \/ CreateSpace
    \/ RegisterSpace
    \/ AddSpace

(***************************************************************************)
(* Part D.  proofs, addProof and createDelegation of Client                *)
(* (src/src/client.js 120-174 and 297-351).  The agent's delegation store   *)
(* holds the proofs added and the delegations the agent issued; a           *)
(* delegation is issuer, audience, capabilities and expiration.            *)
(***************************************************************************)
MaxTime == 2
MaxProofs == 2
MaxIssued == 1

\* this._agent.issuer.did()
AgentDid == "did:key:agent"

\* Principals the agent delegates to.
AudienceInputs == {"did:key:bob"}

\* An expiration no clock of the model reaches.
Never == MaxTime + 1

\* Delegations that may be handed to addProof.
ProofInputs ==
    [issuer : {"did:key:bob"},
     audience : {AgentDid, "did:key:carol"},
     capabilities : {{[can |-> "store/add", with |-> SharedSpace]},
                     {[can |-> "*", with |-> SharedSpace]}},
     expiration : {1, Never}]

\* The caps argument of proofs: undefined (<<>>) or an array <<caps>>.
CapsInputs ==
    {<<>>, <<{}>>,
     <<{[can |-> "store/add", with |-> SharedSpace]}>>,
     <<{[can |-> "upload/add", with |-> SharedSpace],
        [can |-> "store/add", with |-> "did:key:space1"]}>>}

\* Whether a delegation can be used to delegate the capability.
canDelegateCapability(d, cap) ==
    \E c \in d.capabilities : c.with = cap.with /\ c.can \in {cap.can, "*"}

\* The agent's delegations that are not expired at time t, narrowed to the
\* capabilities when a non-empty array is given.
agentDelegationsFor(caps, t) ==
    {d \in agentDelegations :
        /\ d.expiration > t
        /\ \/ caps = <<>>
           \/ caps[1] = {}
           \/ \E cap \in caps[1] : canDelegateCapability(d, cap)}

\* proofs(caps) without the check of the audience.
proofsAnyAudience(caps) == agentDelegationsFor(caps, pnow)

\* proofs(caps): the delegations whose audience is the agent.
proofs(caps) == {d \in agentDelegationsFor(caps, pnow) : d.audience = AgentDid}

\* The audienceMeta used when options has none, in each class definition.
defaultAudienceMeta(r) ==
    IF r = "first" THEN [name |-> "agent", type |-> "device"]
                   ELSE [name |-> "", type |-> "device"]

\* options.audienceMeta ?? default
audienceMetaOf(r, options) ==
    IF "audienceMeta" \in DOMAIN options /\ options.audienceMeta # NoData
      THEN options.audienceMeta
      ELSE defaultAudienceMeta(r)

\* { ...a, ...b }: the keys of b replace those of a.
Spread(a, b) ==
    [k \in DOMAIN a \cup DOMAIN b |-> IF k \in DOMAIN b THEN b[k] ELSE a[k]]

\* The object literal with options spread last.
delegateArgsOptionsLast(r, audience, abilities, options) ==
    Spread([abilities |-> abilities,
            audience |-> audience,
            audienceMeta |-> audienceMetaOf(r, options)],
           options)

\* { ...options, abilities, audience, audienceMeta }
delegateArgs(r, audience, abilities, options) ==
    Spread(options,
           [abilities |-> abilities,
            audience |-> audience,
            audienceMeta |-> audienceMetaOf(r, options)])

\* The delegation agent.delegate(args) issues: every ability on the current
\* space, to the audience.
agentDelegate(args) ==
    [issuer |-> AgentDid,
     audience |-> args.audience,
     capabilities |-> {[can |-> a, with |-> agentCurrentSpace] : a \in args.abilities},
     expiration |-> IF "expiration" \in DOMAIN args THEN args.expiration ELSE Never]

\* new Delegation(root, blocks, meta)
Delegation(d, meta) == [delegation |-> d, meta |-> meta]

\* Options objects handed to createDelegation.
OptionsInputs ==
    {<<>>,
     [audienceMeta |-> [name |-> "phone", type |-> "app"]],
     [audienceMeta |-> NoData, expiration |-> 1],
     [audience |-> "did:key:carol", abilities |-> {"*"}],
     [audience |-> "did:key:carol", audienceMeta |-> [name |-> "phone", type |-> "app"]]}

\* Time passes.
ProofTick ==
    /\ pnow < MaxTime
    /\ pnow' = pnow + 1
    /\ UNCHANGED <<agentDelegations, pret, added, spaceVars>>
    /\ UNCHANGED exceptProof

ProofsCall ==
    /\ \E caps \in CapsInputs :
          pret' = [op |-> "proofs", caps |-> caps, at |-> pnow, val |-> proofs(caps)]
    /\ UNCHANGED <<agentDelegations, pnow, added, spaceVars>>
    /\ UNCHANGED exceptProof

AddProof ==
    /\ Cardinality(added) < MaxProofs
    /\ \E p \in ProofInputs :
          /\ agentDelegations' = agentDelegations \cup {p}
          /\ added' = added \cup {p}
    /\ pret' = [op |-> "addProof", val |-> NoData]
    /\ UNCHANGED <<pnow, spaceVars>>
    /\ UNCHANGED exceptProof

\* createDelegation(audience, abilities, options): the agent rejects when it
\* has no current space.  The record of the call keeps the three arguments
\* and the object handed to agent.delegate.
CreateDelegation ==
    /\ Cardinality({d \in agentDelegations : d.issuer = AgentDid}) < MaxIssued
    /\ \E audience \in AudienceInputs, abilities \in {{"store/add"}, {"store/add", "upload/add"}},
          options \in OptionsInputs :
          LET args == delegateArgs(rev, audience, abilities, options)
              call == [op |-> "createDelegation",
                       audience |-> audience,
                       abilities |-> abilities,
                       options |-> options,
                       handed |-> args]
          IN
          IF agentCurrentSpace = Undefined
            THEN /\ pret' = call @@ [outcome |-> "rejected", val |-> NoData]
                 /\ UNCHANGED agentDelegations
            ELSE /\ agentDelegations' = agentDelegations \cup {agentDelegate(args)}
                 /\ pret' = call @@
                        [outcome |-> "resolved",
                         val |-> Delegation(agentDelegate(args),
                                            [audience |-> audienceMetaOf(rev, options)])]
    /\ UNCHANGED <<pnow, added, spaceVars>>
    /\ UNCHANGED exceptProof

\* A client of either definition, with or without a current space.
ProofInit ==
    /\ rev \in Revisions
    /\ agentCurrentSpace \in {Undefined, SharedSpace}
    /\ agentSpaces = <<>>
    /\ sret = [op |-> "none", val |-> NoData]
    /\ lastSet = Undefined
    /\ created = <<>>
    /\ agentDelegations = {}
    /\ pnow = 0
    /\ pret = [op |-> "none", val |-> NoData]
    /\ added = {}

ProofNext ==
    \/ ProofTick
    \/ ProofsCall
    \/ AddProof
    \/ CreateDelegation

(***************************************************************************)
(* Part E.  importSettings and toPrincipal (src/unnamed/part_000 12-78).   *)
(* A JSON value is a record: a string says how it is encoded and, when it  *)
(* encodes a principal, which one.                                         *)
(***************************************************************************)
\* The keys importSettings converts to principals.
SecretKeys == {"secret", "agent_secret", "account_secret"}

\* Values a settings string may hold under a secret key: the formatted
\* (multibase) string of a principal, the base64 of its bytes, another string,
\* and a number.
SecretInputs ==
    {[enc |-> "multibase", key |-> 1],
     [enc |-> "base64", key |-> 1],
     [enc |-> "text", key |-> 0],
     [enc |-> "number", key |-> 0]}

\* Values under a key importSettings does not know.
OtherInputs == {[enc |-> "text", key |-> 0], [enc |-> "number", key |-> 0]}

\* Values under delegations: an object of entries whose ucan parses or does
\* not, or null.
DelegationsInputs ==
    {[enc |-> "delegations", ucans |-> <<>>],
     [enc |-> "delegations", ucans |-> <<TRUE>>],
     [enc |-> "delegations", ucans |-> <<TRUE, FALSE>>],
     [enc |-> "null", ucans |-> <<>>]}

\* The objects a settings string may parse to.
ObjectInputs ==
    UNION {{[k \in D |-> IF k \in SecretKeys THEN f[k]
                         ELSE IF k = "delegations" THEN d ELSE o] :
                f \in [D \cap SecretKeys -> SecretInputs],
                d \in DelegationsInputs,
                o \in OtherInputs} :
           D \in SUBSET (SecretKeys \cup {"delegations", "email"})}

\* JSON.parse(settingsString): a syntax error, null, or an object.
ImportedInputs ==
    {[json |-> "invalid", obj |-> <<>>], [json |-> "null", obj |-> <<>>]}
        \cup {[json |-> "object", obj |-> o] : o \in ObjectInputs}

\* SigningPrincipal.decode(bytes)
principalDecode(secret) ==
    IF secret.enc = "bytes" THEN [key |-> secret.key] ELSE NoData

\* SigningPrincipal.parse(string)
principalParse(secret) ==
    IF secret.enc = "multibase" THEN [key |-> secret.key] ELSE NoData

\* SigningPrincipal.decode(Buffer.from(secret, 'base64'))
principalDecodeBase64(secret) ==
    IF secret.enc = "base64" THEN [key |-> secret.key] ELSE NoData

\* SigningPrincipal.format(principal)
principalFormat(principal) == [enc |-> "multibase", key |-> principal.key]

\* toPrincipal without its last attempt.
toPrincipalNoBase64(secret) ==
    IF principalDecode(secret) # NoData THEN principalDecode(secret)
    ELSE principalParse(secret)

\* toPrincipal(secret): decode, else parse, else decode the base64, else null.
toPrincipal(secret) ==
    IF principalDecode(secret) # NoData THEN principalDecode(secret)
    ELSE IF principalParse(secret) # NoData THEN principalParse(secret)
    ELSE principalDecodeBase64(secret)

\* Whether the loop over imported.delegations completes: Object.entries of
\* null and UCAN.parse of a string that is no UCAN throw.
delegationsImportable(v) ==
    v.enc = "delegations" /\ \A i \in DOMAIN v.ucans : v.ucans[i]

\* The delegations object importSettings builds.
importedDelegations(v) == [enc |-> "imported delegations", ucans |-> v.ucans]

\* importSettings(settingsString), from the value JSON.parse gives: the Map
\* returned, or the fact that the call throws.
importSettings(imp) ==
    IF imp.json = "invalid" THEN [kind |-> "throws", map |-> <<>>]
    ELSE IF imp.json = "null" THEN [kind |-> "map", map |-> <<>>]
    ELSE IF "delegations" \in DOMAIN imp.obj /\ ~delegationsImportable(imp.obj.delegations)
      THEN [kind |-> "throws", map |-> <<>>]
    ELSE [kind |-> "map",
          map |-> [k \in {k \in DOMAIN imp.obj :
                             k \in SecretKeys => toPrincipal(imp.obj[k]) # NoData} |->
                      IF k \in SecretKeys THEN principalFormat(toPrincipal(imp.obj[k]))
                      ELSE IF k = "delegations" THEN importedDelegations(imp.obj[k])
                      ELSE imp.obj[k]]]

ImportSettings ==
    /\ settings = NoData
    /\ settings' = importSettings(imported)
    /\ UNCHANGED imported
    /\ UNCHANGED exceptSettings

SettingsInit ==
    /\ imported \in ImportedInputs
    /\ settings = NoData

SettingsNext == ImportSettings

ProofIdle ==
    /\ agentDelegations = {}
    /\ pnow = 0
    /\ pret = [op |-> "none", val |-> NoData]
    /\ added = {}

SettingsIdle ==
    /\ imported = NoData
    /\ settings = NoData

(***************************************************************************)
(* Specifications: one per part; the variables of the other parts rest.    *)
(***************************************************************************)
InitCreate == CreateInit /\ DelegationInit /\ SpaceIdle /\ ProofIdle /\ SettingsIdle

SpecCreate == InitCreate /\ [][CreateNext]_vars

InitDelegation == CreateIdle /\ DelegationInit /\ SpaceIdle /\ ProofIdle /\ SettingsIdle

SpecDelegation == InitDelegation /\ [][DelegationNext]_vars

InitSpace == CreateIdle /\ DelegationInit /\ SpaceInit /\ ProofIdle /\ SettingsIdle

SpecSpace == InitSpace /\ [][SpaceNext]_vars

InitProof == CreateIdle /\ DelegationInit /\ ProofInit /\ SettingsIdle

SpecProof == InitProof /\ [][ProofNext]_vars

InitSettings == CreateIdle /\ DelegationInit /\ SpaceIdle /\ ProofIdle /\ SettingsInit

SpecSettings == InitSettings /\ [][SettingsNext]_vars

(***************************************************************************)
(* Claims.                                                                 *)
(***************************************************************************)

\* What one completed Client.create did: with stored data the client is built
\* from it and no key is generated; with an empty store the client is built
\* from the one key the call generated.
C1_Contract ==
    \A c \in Calls : cpc[c] = "done" =>
        IF craw[c] # NoData
          THEN cident[c] = craw[c].principal /\ ckey[c] = NoKey
          ELSE ckey[c] # NoKey /\ cident[c] = ckey[c]

\* Keys are generated only by calls that found the store empty, one each.
C1_OneKeyEach ==
    /\ nkeys = Cardinality({c \in Calls : ckey[c] # NoKey})
    /\ \A c, d \in Calls : (ckey[c] # NoKey /\ ckey[c] = ckey[d]) => c = d

\* The step that completes a call which generated a key leaves the agent data
\* built from that key in the store.
C1_Persisted ==
    \A c \in Calls :
        (cpc[c] = "create" /\ cpc'[c] = "done") =>
            store' = [principal |-> ckey[c], meta |-> "agent"]

\* All clients completed so far have the same agent.
C1_SameAgent ==
    \A c, d \in Calls : (cpc[c] = "done" /\ cpc[d] = "done") => cident[c] = cident[d]

\* C1 (as amended): a Client.create that loads stored data builds the client
\* from it and generates no key; one that finds the store empty generates
\* exactly one key and persists the agent data built from it to the store;
\* and when no call starts before the previous one has completed, every
\* client has the same agent as the first.
C1_CreateSequential ==
    /\ [](C1_Contract /\ C1_OneKeyEach /\ (~overlapped => C1_SameAgent))
    /\ [][C1_Persisted]_vars

\* C1 witness: three calls ran one after the other on an empty store; the
\* first generated the key and the later ones loaded it.
C1_Witness ==
    /\ ~overlapped
    /\ \A c \in Calls : cpc[c] = "done"
    /\ Cardinality({c \in Calls : ckey[c] # NoKey}) = 1
    /\ Cardinality({c \in Calls : craw[c] # NoData}) = MaxCalls - 1

\* C1 (original): for any Client.create calls on one store, every client has
\* the same agent as the first.
C1_Original == C1_Contract /\ C1_OneKeyEach /\ C1_SameAgent

C4_Entry(did) ==
    IF \E i \in DOMAIN agentSpaces : agentSpaces[i].did = did
      THEN agentSpaces[CHOOSE i \in DOMAIN agentSpaces : agentSpaces[i].did = did].meta
      ELSE NoData

C4_Returned ==
    sret.op = "currentSpace" =>
        /\ agentCurrentSpace = Undefined => sret.val = NoData
        /\ lastSet # Undefined =>
              sret.val = [did |-> lastSet, meta |-> C4_Entry(lastSet)]

C4_ReadOnly ==
    sret'.op = "currentSpace" => UNCHANGED <<agentSpaces, agentCurrentSpace>>

\* C4: currentSpace() returns undefined while the agent has no current space;
\* after a setCurrentSpace(did) that completed, and until the next one, it
\* returns the Space of did with the metadata the space map holds for did;
\* and a call of currentSpace() changes nothing of the agent.
C4_CurrentSpace == []C4_Returned /\ [][C4_ReadOnly]_vars

\* C4 witness: currentSpace() has just returned the space last set, a space
\* that was registered after it became current.
C4_Witness ==
    /\ sret.op = "currentSpace"
    /\ lastSet # Undefined
    /\ sret.val.did = lastSet
    /\ lastSet # SharedSpace
    /\ sret.val.meta.isRegistered

\* C5: spaces() returns one Space per entry of the space map with the entry's
\* DID and metadata; every space created so far is in it exactly once; and
\* createSpace returns the Space of the DID and metadata the agent created.
C5_SpacesAndCreateSpace ==
    /\ sret.op = "spaces" =>
          /\ Len(sret.val) = Len(agentSpaces)
          /\ \A i \in DOMAIN agentSpaces :
                sret.val[i] = [did |-> agentSpaces[i].did, meta |-> agentSpaces[i].meta]
          /\ \A i \in DOMAIN created :
                Cardinality({j \in DOMAIN sret.val : sret.val[j].did = created[i].did}) = 1
    /\ sret.op = "createSpace" =>
          sret.val = [did |-> created[Len(created)].did, meta |-> created[Len(created)].meta]

\* The first two conjuncts of C5 alone, which both definitions satisfy.
C5_SpacesOnly ==
    sret.op = "spaces" =>
        /\ Len(sret.val) = Len(agentSpaces)
        /\ \A i \in DOMAIN agentSpaces :
              sret.val[i] = [did |-> agentSpaces[i].did, meta |-> agentSpaces[i].meta]
        /\ \A i \in DOMAIN created :
              Cardinality({j \in DOMAIN sret.val : sret.val[j].did = created[i].did}) = 1

\* proofs was called with undefined or empty caps.
C6_NoCaps == pret.caps = <<>> \/ pret.caps[1] = {}

\* A delegation matches one of the capabilities asked for.
C6_Matches(d) ==
    \E cap \in pret.caps[1] :
        \E c \in d.capabilities : c.with = cap.with /\ (c.can = cap.can \/ c.can = "*")

\* The proofs of the agent when proofs was called: the stored delegations
\* addressed to the agent and not expired.
C6_AllProofs ==
    {d \in agentDelegations : d.audience = AgentDid /\ d.expiration > pret.at}

\* What holds of every result of proofs: it consists of stored delegations
\* addressed to the agent, and with non-empty caps it is the proofs that match.
C6_Result ==
    /\ pret.val \subseteq agentDelegations
    /\ \A d \in pret.val : d.audience = AgentDid
    /\ ~C6_NoCaps => pret.val = {d \in C6_AllProofs : C6_Matches(d)}

\* C6 (as amended): proofs(caps) with empty or undefined caps returns all the
\* proofs of the agent: every p added so far by addProof that is addressed to
\* the agent and has not expired is in the result.  With non-empty caps the
\* result is the subset of those proofs matching the capabilities, and every
\* returned proof is a delegation whose audience is the agent's DID.
C6_ProofsOfAgent ==
    pret.op = "proofs" =>
        /\ C6_NoCaps =>
              /\ pret.val = C6_AllProofs
              /\ \A p \in added :
                    (p.audience = AgentDid /\ p.expiration > pret.at) => p \in pret.val
        /\ C6_Result

\* C6 witness: with a delegation issued to someone else in the store and two
\* proofs added, proofs() returned exactly the proofs.
C6_Witness ==
    /\ pret.op = "proofs"
    /\ C6_NoCaps
    /\ \E d \in agentDelegations : d.audience # AgentDid /\ d.issuer = AgentDid
    /\ Cardinality(added) = 2
    /\ pret.val = added

\* C6 (original): with empty or undefined caps every p added so far is in the
\* result of proofs().
C6_Original ==
    pret.op = "proofs" =>
        /\ C6_NoCaps => \A p \in added : p \in pret.val
        /\ C6_Result

\* createDelegation was given an audienceMeta.
C7_Supplied ==
    "audienceMeta" \in DOMAIN pret.options /\ pret.options.audienceMeta # NoData

\* C7: createDelegation hands the agent the audience and the abilities of its
\* two positional arguments whatever keys options has, and an audienceMeta
\* that is options.audienceMeta when supplied and otherwise a default of type
\* 'device'; the Delegation returned carries that same audienceMeta, and is a
\* delegation to the audience for the abilities on the current space.
C7_CreateDelegation ==
    pret.op = "createDelegation" =>
        /\ pret.handed.audience = pret.audience
        /\ pret.handed.abilities = pret.abilities
        /\ IF C7_Supplied
             THEN pret.handed.audienceMeta = pret.options.audienceMeta
             ELSE /\ "type" \in DOMAIN pret.handed.audienceMeta
                  /\ pret.handed.audienceMeta.type = "device"
        /\ \A k \in DOMAIN pret.options \ {"audience", "abilities", "audienceMeta"} :
              pret.handed[k] = pret.options[k]
        /\ pret.outcome = "resolved" =>
              /\ pret.val.meta.audience = pret.handed.audienceMeta
              /\ pret.val.delegation.audience = pret.audience
              /\ pret.val.delegation.capabilities =
                    {[can |-> a, with |-> agentCurrentSpace] : a \in pret.abilities}

\* C7 witness: a delegation was created with options that carry an audience
\* and an audienceMeta of their own.
C7_Witness ==
    /\ pret.op = "createDelegation"
    /\ pret.outcome = "resolved"
    /\ "audience" \in DOMAIN pret.options
    /\ C7_Supplied
    /\ pret.options.audience # pret.audience
    /\ pret.val.delegation.audience = pret.audience

====
